---- MODULE Spec2Model ----
(***************************************************************************)
(* Model of the CEAS site-profiling pipeline:                              *)
(*   CEAS/bigwig_utils.py   summarize_bigwig                               *)
(*   CEAS/sitepro_bigwig.py opt_validate, main, dump, CalcConfidInterval,  *)
(*                          draw_*                                         *)
(*   tests/test_bigwig_utils.py StubBW (the track used by the tests)       *)
(*                                                                         *)
(* Numbers.  Python 3 evaluates `/` in binary64.  Window arithmetic only   *)
(* meets integers and half-integers, so it is modelled on doubled integers *)
(* (H2 = twice the value), which is exact.  The bin boundaries of          *)
(* summarize_bigwig go through span/float(bins) and i*bin_size, which do   *)
(* round, so they are modelled by a bit-level binary64 arithmetic (53-bit  *)
(* significand, round to nearest even).  Signal values and their means are *)
(* exact fractions <<num, den>> in lowest terms; the rounding of a mean to *)
(* binary64 is not modelled.                                               *)
(***************************************************************************)
EXTENDS Integers, Sequences, FiniteSets, TLC

\* ------------------------------------------------------------------------
\* binary64 arithmetic on positive values
\* A double is [m |-> <<b1..b53>>, e |-> k]: the bits b1..b53 (b1 = 1, most
\* significant first) read as an integer, times 2^k.  Zero is [m |-> <<>>].
\* ------------------------------------------------------------------------
Precision == 53

LimbBits == 18

Pow2(k) == 2 ^ k

FZero == [m |-> <<>>, e |-> 0]

Zeros(n) == [k \in 1..n |-> 0]

\* the w low binary digits of the natural number n, most significant first
Bits(n, w) == [k \in 1..w |-> (n \div Pow2(w - k)) % 2]

\* binary digits of the natural number n without leading zeros
RECURSIVE IntToBits(_)
IntToBits(n) == IF n = 0 THEN <<>> ELSE IntToBits(n \div 2) \o <<n % 2>>

\* the natural number a bit string (at most 31 bits) stands for
RECURSIVE BitsToInt(_)
BitsToInt(b) ==
    IF Len(b) = 0 THEN 0
    ELSE 2 * BitsToInt(SubSeq(b, 1, Len(b) - 1)) + b[Len(b)]

HasOne(b) == \E k \in 1..Len(b) : b[k] = 1

StripZeros(b) ==
    IF ~HasOne(b) THEN <<>>
    ELSE LET p == CHOOSE k \in 1..Len(b) :
                      b[k] = 1 /\ \A j \in 1..(k - 1) : b[j] = 0
         IN  SubSeq(b, p, Len(b))

\* b + 1 on a bit string; all ones overflow into Len(b) + 1 bits
IncBits(b) ==
    IF \A k \in 1..Len(b) : b[k] = 1 THEN <<1>> \o Zeros(Len(b))
    ELSE LET p == CHOOSE k \in 1..Len(b) :
                      b[k] = 0 /\ \A j \in (k + 1)..Len(b) : b[j] = 1
         IN  [k \in 1..Len(b) |-> IF k < p THEN b[k] ELSE IF k = p THEN 1 ELSE 0]

\* Round the exact value (bits + f) * 2^e, 0 <= f < 1, f > 0 iff sticky, to
\* the nearest double, ties to even.
RoundBits(bits, e, sticky) ==
    LET s == StripZeros(bits)
        L == Len(s)
    IN  IF L = 0 THEN FZero
        ELSE IF L <= Precision
             THEN [m |-> s \o Zeros(Precision - L), e |-> e - (Precision - L)]
        ELSE LET keep  == SubSeq(s, 1, Precision)
                 guard == s[Precision + 1]
                 rest  == HasOne(SubSeq(s, Precision + 2, L)) \/ sticky
                 up    == guard = 1 /\ (rest \/ keep[Precision] = 1)
                 r     == IF up THEN IncBits(keep) ELSE keep
             IN  IF Len(r) > Precision
                 THEN [m |-> SubSeq(r, 1, Precision), e |-> e + (L - Precision) + 1]
                 ELSE [m |-> r, e |-> e + (L - Precision)]

\* float(n) for a natural n
FFromInt(n) == RoundBits(IntToBits(n), 0, FALSE)

\* a / float(b) for naturals a >= 0 and 0 < b < 2^13: the integer part and
\* the first 4 * LimbBits binary digits after the point, then rounded; what
\* is left of the remainder makes the sticky bit
FDiv(a, b) ==
    LET B  == Pow2(LimbBits)
        r0 == a % b
        d1 == (r0 * B) \div b
        r1 == (r0 * B) % b
        d2 == (r1 * B) \div b
        r2 == (r1 * B) % b
        d3 == (r2 * B) \div b
        r3 == (r2 * B) % b
        d4 == (r3 * B) \div b
        r4 == (r3 * B) % b
    IN  RoundBits(IntToBits(a \div b) \o Bits(d1, LimbBits) \o Bits(d2, LimbBits)
                      \o Bits(d3, LimbBits) \o Bits(d4, LimbBits),
                  0 - 4 * LimbBits, r4 # 0)

\* i * x for a natural i < 2^12 and a double x: the significand is cut in
\* limbs of 17, 18 and 18 bits, multiplied limb by limb, then rounded
FMulInt(i, x) ==
    IF i = 0 \/ Len(x.m) = 0 THEN FZero
    ELSE LET B  == Pow2(LimbBits)
             a  == BitsToInt(SubSeq(x.m, 1, Precision - 2 * LimbBits))
             b  == BitsToInt(SubSeq(x.m, Precision - 2 * LimbBits + 1,
                                    Precision - LimbBits))
             c  == BitsToInt(SubSeq(x.m, Precision - LimbBits + 1, Precision))
             pc == c * i
             pb == b * i + pc \div B
             pa == a * i + pb \div B
         IN  RoundBits(IntToBits(pa) \o Bits(pb % B, LimbBits)
                           \o Bits(pc % B, LimbBits), x.e, FALSE)

\* n + x for a natural n and a double 0 <= x < 2^31 (so x.e < 0): n is added
\* to the integer part of x, the digits after the point stay, then rounded
FAddInt(n, x) ==
    IF Len(x.m) = 0 THEN FFromInt(n)
    ELSE LET k  == 0 - x.e
             ip == IF k >= Precision THEN 0
                   ELSE BitsToInt(SubSeq(x.m, 1, Precision - k))
             fr == IF k >= Precision THEN Zeros(k - Precision) \o x.m
                   ELSE SubSeq(x.m, Precision - k + 1, Precision)
         IN  RoundBits(IntToBits(n + ip) \o fr, x.e, FALSE)

\* int(x) for a double 0 <= x < 2^31: truncation
FTrunc(x) ==
    IF Len(x.m) = 0 \/ 0 - x.e >= Precision THEN 0
    ELSE BitsToInt(SubSeq(x.m, 1, Precision + x.e))

\* ------------------------------------------------------------------------
\* signal values: an exact fraction <<num, den>> in lowest terms, or NaN,
\* written <<0, 0>>
\* Python values that may be a list, None or a raised exception are tagged:
\* [tag |-> "list", val |-> the list], None, Raise(exception name).
\* ------------------------------------------------------------------------
NaN == <<0, 0>>

None == [tag |-> "None", val |-> <<>>]

List(s) == [tag |-> "list", val |-> s]

Raise(exc) == [tag |-> exc, val |-> <<>>]

IsList(r) == r.tag = "list"

RECURSIVE GCD(_, _)
GCD(a, b) == IF b = 0 THEN a ELSE GCD(b, a % b)

Frac(n, d) == LET g == GCD(n, d) IN <<n \div g, d \div g>>

FracAdd(x, y) == Frac(x[1] * y[2] + y[1] * x[2], x[2] * y[2])

FracDivInt(x, n) == Frac(x[1], x[2] * n)

\* sum(a[lo..hi]) of a sequence of fractions, by halves
RECURSIVE SumRange(_, _, _)
SumRange(a, lo, hi) ==
    IF lo > hi THEN <<0, 1>>
    ELSE IF lo = hi THEN a[lo]
    ELSE LET mid == (lo + hi) \div 2
         IN  FracAdd(SumRange(a, lo, mid), SumRange(a, mid + 1, hi))

Sum(a) == SumRange(a, 1, Len(a))

\* arr.mean(), sum(t)/len(t): defined for a non-empty sequence of fractions
Mean(a) == FracDivInt(Sum(a), Len(a))

NotNaN(v) == v # NaN

\* arr[~np.isnan(arr)], [t2 for t2 in t if not math.isnan(t2)]
DropNaN(a) == SelectSeq(a, NotNaN)

Reverse(a) == [k \in 1..Len(a) |-> a[Len(a) + 1 - k]]

\* ------------------------------------------------------------------------
\* the track: tests/test_bigwig_utils.py StubBW, with the chromosomes it
\* knows.  segs is the dict of (start, end) -> value.
\* ------------------------------------------------------------------------
StubBW == [chroms |-> {"chr1"},
           segs   |-> <<<<0, 100, 1>>, <<100, 200, 2>>, <<200, 300, 3>>>>]

\* the value StubBW.get_as_array leaves at position p
ValueAt(bw, p) ==
    LET hit == {k \in 1..Len(bw.segs) : bw.segs[k][1] <= p /\ p < bw.segs[k][2]}
    IN  IF hit = {} THEN NaN
        ELSE LET k == CHOOSE j \in hit : \A i \in hit : i <= j
             IN  <<bw.segs[k][3], 1>>

\* bw.get_as_array(chrom, start, end): None for a chromosome the track does
\* not have, else one value per base of [start, end)
get_as_array(bw, chrom, start, end) ==
    IF chrom \notin bw.chroms THEN None
    ELSE List([k \in 1..(end - start) |-> ValueAt(bw, start + k - 1)])

\* ------------------------------------------------------------------------
\* CEAS/bigwig_utils.py summarize_bigwig
\* ------------------------------------------------------------------------
\* bin_size = span / float(bins)
bin_size(start, end, bins) == FDiv(end - start, bins)

\* int(start + i * bin_size)
bin_start(start, bsz, i) == FTrunc(FAddInt(start, FMulInt(i, bsz)))

\* int(start + (i + 1) * bin_size)
bin_end(start, bsz, i) == FTrunc(FAddInt(start, FMulInt(i + 1, bsz)))

\* one pass of the loop body, for the bin [bs, be): what it appends to results
bin_appended_dropping(bw, chrom, bs, be) ==
    LET arr == get_as_array(bw, chrom, bs, be)
    IN  IF arr = None THEN <<NaN>>
        ELSE LET kept == DropNaN(arr.val)
             IN  IF Len(kept) > 0 THEN <<Mean(kept)>> ELSE <<>>

bin_appended(bw, chrom, bs, be) ==
    LET arr == get_as_array(bw, chrom, bs, be)
    IN  IF arr = None THEN <<NaN>>
        ELSE LET kept == DropNaN(arr.val)
             IN  IF Len(kept) > 0 THEN <<Mean(kept)>> ELSE <<NaN>>

\* results after the passes for the first n bins
RECURSIVE loop_results(_, _, _, _)
loop_results(bw, chrom, queries, n) ==
    IF n = 0 THEN <<>>
    ELSE loop_results(bw, chrom, queries, n - 1)
             \o bin_appended(bw, chrom, queries[n][1], queries[n][2])

\* all(np.isnan(results))
any_nan(results) == \E k \in 1..Len(results) : results[k] = NaN

all_nan(results) == \A k \in 1..Len(results) : results[k] = NaN

\* the whole call.  ret is the returned value (None, a list, or the
\* ZeroDivisionError of span / float(0)); queries lists the (bin_start, bin_end) handed to get_as_array.
summarize_run(bw, chrom, start, end, bins) ==
    IF bins = 0 THEN [ret |-> Raise("ZeroDivisionError"), queries |-> <<>>]
    ELSE IF bins < 0 THEN [ret |-> None, queries |-> <<>>]
    ELSE LET bsz     == bin_size(start, end, bins)
             queries == [k \in 1..bins |->
                            <<bin_start(start, bsz, k - 1), bin_end(start, bsz, k - 1)>>]
             results == loop_results(bw, chrom, queries, bins)
         IN  [ret     |-> IF all_nan(results) THEN None ELSE List(results),
              queries |-> queries]

summarize_bigwig(bw, chrom, start, end, bins) ==
    summarize_run(bw, chrom, start, end, bins).ret

\* ------------------------------------------------------------------------
\* tracks and bounds of the checked inputs
\* ------------------------------------------------------------------------
\* full coverage of [0, 20), a different value on each side of 14
TrackA == [chroms |-> {"chr1"},
           segs   |-> <<<<0, 5, 1>>, <<5, 14, 2>>, <<14, 20, 3>>>>]

\* StubBW scaled down: 1 on [2,4), 2 on [4,6), 3 on [6,8), nothing elsewhere
Track1 == [chroms |-> {"chr1"},
           segs   |-> <<<<2, 4, 1>>, <<4, 6, 2>>, <<6, 8, 3>>>>]

\* a readable track without any data
TrackE == [chroms |-> {"chr1"}, segs |-> <<>>]

SumTracks == {TrackA, Track1, TrackE}

Chroms == {"chr1", "chrU"}

MaxStart == 1

MaxLen == 15

MinBins == 0 - 1

MaxBins == 11

SumInputs ==
    [bw : SumTracks, chrom : Chroms, start : 0..MaxStart,
     len : 1..MaxLen, bins : MinBins..MaxBins]
    \cup {[bw |-> StubBW, chrom |-> "chr1", start |-> 0, len |-> 300, bins |-> 3]}

VARIABLES sumArgs, sumPc, sumRes

sumVars == <<sumArgs, sumPc, sumRes>>

\* ------------------------------------------------------------------------
\* CEAS/sitepro_bigwig.py: the site lists and options of a run
\* A line of a BED file is the list of its fields, chrom, start, end and then
\* perhaps name, score, strand (start and end are kept as the integers that
\* int() reads from them).
\* ------------------------------------------------------------------------
SitePlus == <<"chr1", 4, 6, "a", "0", "+">>

SiteMinus == <<"chr1", 4, 6, "b", "0", "-">>

SiteLow == <<"chr1", 1, 1, "l">>

SiteHalf == <<"chr1", 2, 3>>

SiteFar == <<"chrU", 4, 6, "f", "0", "-">>

SitePool == {SitePlus, SiteMinus, SiteLow, SiteHalf, SiteFar}

MaxSites == 2

RECURSIVE SeqsUpTo(_, _)
SeqsUpTo(S, n) ==
    IF n = 0 THEN {<<>>}
    ELSE LET shorter == SeqsUpTo(S, n - 1)
         IN  shorter \cup {Append(b, x) : b \in {c \in shorter : Len(c) = n - 1}, x \in S}

Beds == SeqsUpTo(SitePool, MaxSites)

\* the second list of a run with two lists
SecondBeds == {<<>>, <<SitePlus>>, <<SiteLow>>}

\* a track with other values than Track1
Track2 == [chroms |-> {"chr1"}, segs |-> <<<<0, 5, 4>>, <<5, 20, 6>>>>]

\* the -w and -b lists: one track and one list, one track and several lists,
\* or several tracks and one list
RunShapes ==
    {[wig |-> <<Track1>>, bed |-> <<b>>] : b \in Beds}
    \cup {[wig |-> <<Track1>>, bed |-> <<b, c>>] : b \in Beds, c \in SecondBeds}
    \cup {[wig |-> <<Track1, Track2>>, bed |-> <<b>>] : b \in Beds}

\* --span and --pf-res
SpanRes == {<<1, 1>>, <<1, 2>>, <<2, 3>>}

Labels(n) == [k \in 1..n |-> k]

Options ==
    {[wig |-> sh.wig, bed |-> sh.bed, span |-> sr[1], pf_res |-> sr[2],
      dir |-> d, confidence |-> c, dump |-> u,
      label |-> Labels(IF Len(sh.wig) > 1 THEN Len(sh.wig) ELSE Len(sh.bed))] :
        sh \in RunShapes, sr \in SpanRes, d \in BOOLEAN, c \in BOOLEAN, u \in BOOLEAN}

\* The files behind the -w paths.  nofile holds the positions in opts.wig of
\* the paths where os.path.isfile is false, unreadable those of the paths
\* that are files but that open_bigwig cannot open (no read permission, or
\* not a bigWig file).  The -b paths are all readable files.
WithFiles(o, nf, ur) == o @@ [nofile |-> nf, unreadable |-> ur]

\* command lines with all the tracks readable
GoodRuns == {WithFiles(o, {}, {}) : o \in Options}

\* command lines with something wrong: several tracks and several lists, a
\* label count that does not fit, a -w path that is no file, a -w file that
\* cannot be opened
OneBed == <<SitePlus>>

BadShapes ==
    {[wig |-> <<Track1, Track2>>, bed |-> <<OneBed, OneBed>>, label |-> Labels(2),
      nofile |-> {}, unreadable |-> {}],
     [wig |-> <<Track1>>, bed |-> <<OneBed>>, label |-> Labels(2),
      nofile |-> {}, unreadable |-> {}],
     [wig |-> <<Track1, Track2>>, bed |-> <<OneBed>>, label |-> Labels(1),
      nofile |-> {}, unreadable |-> {}],
     [wig |-> <<Track1>>, bed |-> <<OneBed, OneBed>>, label |-> Labels(3),
      nofile |-> {}, unreadable |-> {}],
     [wig |-> <<Track1>>, bed |-> <<OneBed>>, label |-> Labels(1),
      nofile |-> {1}, unreadable |-> {}],
     [wig |-> <<Track1, Track2>>, bed |-> <<OneBed>>, label |-> Labels(2),
      nofile |-> {2}, unreadable |-> {}],
     [wig |-> <<Track1>>, bed |-> <<OneBed>>, label |-> Labels(1),
      nofile |-> {}, unreadable |-> {1}],
     [wig |-> <<Track1>>, bed |-> <<OneBed, OneBed>>, label |-> Labels(2),
      nofile |-> {}, unreadable |-> {1}],
     [wig |-> <<Track1, Track2>>, bed |-> <<OneBed>>, label |-> Labels(2),
      nofile |-> {}, unreadable |-> {1}],
     [wig |-> <<Track1, Track2>>, bed |-> <<OneBed>>, label |-> Labels(2),
      nofile |-> {}, unreadable |-> {2}],
     [wig |-> <<Track1, Track2>>, bed |-> <<OneBed>>, label |-> Labels(2),
      nofile |-> {2}, unreadable |-> {1}]}

BadRuns ==
    {[wig |-> sh.wig, bed |-> sh.bed, span |-> 1, pf_res |-> 1,
      dir |-> FALSE, confidence |-> FALSE, dump |-> u, label |-> sh.label,
      nofile |-> sh.nofile, unreadable |-> sh.unreadable] :
        sh \in BadShapes, u \in BOOLEAN}

Runs == GoodRuns \cup BadRuns

\* opt_validate (lines 56-122): "" when the options pass, else the SystemExit
\* of sys.exit(1)
opt_validate(o) ==
    IF Len(o.wig) = 0 \/ Len(o.bed) = 0 THEN "SystemExit"
    ELSE IF Len(o.wig) > 1 /\ Len(o.bed) > 1 THEN "SystemExit"
    ELSE IF \E k \in 1..Len(o.wig) : k \in o.nofile THEN "SystemExit"
    ELSE IF Len(o.wig) > 1
         THEN (IF Len(o.label) # Len(o.wig) THEN "SystemExit" ELSE "")
    ELSE IF Len(o.bed) > 1
         THEN (IF Len(o.label) # Len(o.bed) THEN "SystemExit" ELSE "")
    ELSE IF Len(o.label) # 1 THEN "SystemExit" ELSE ""

\* open_bigwig(path) for the k-th -w path: BigWigFile(open(path, "rb"))
\* raises when the file cannot be opened
open_bigwig(o, k) ==
    IF k \in o.unreadable THEN Raise("IOError") ELSE List(o.wig[k])

\* ------------------------------------------------------------------------
\* main: the window of a site (lines 261-271).  center and the two ends of
\* prange are integers or half-integers; they are carried doubled.
\* ------------------------------------------------------------------------
\* 2 * center, center = (int(line[1]) + int(line[2])) / 2
center2(line) == line[2] + line[3]

\* 2 * prange[0], prange[0] = center - span - pf_res/2
prange0_2(o, line) == center2(line) - 2 * o.span - o.pf_res

\* 2 * prange[1], prange[1] = center + span - pf_res/2 + pf_res
prange1_2(o, line) == center2(line) + 2 * o.span - o.pf_res + 2 * o.pf_res

\* prange[0] <= 0 or prange[1] <= 0
window_invalid(o, line) == prange0_2(o, line) <= 0 \/ prange1_2(o, line) <= 0

\* int(x) of the half-integer x = h/2: truncation toward zero
IntOfHalf(h) == IF h >= 0 THEN h \div 2 ELSE 0 - ((0 - h) \div 2)

\* int(2 * opts.span / opts.pf_res + 1)
bin_count(o) == FTrunc(FAddInt(1, FDiv(2 * o.span, o.pf_res)))

\* the arguments of the call of lines 265-271
window(o, line) ==
    [chrom |-> line[1],
     start |-> IntOfHalf(prange0_2(o, line)),
     end   |-> IntOfHalf(prange1_2(o, line)),
     bins  |-> bin_count(o)]

\* lines 275-278: the profile kept for a retained site
oriented_ignoring_dir(o, line, summarize) ==
    IF Len(line) > 5 /\ line[6] = "-" THEN Reverse(summarize) ELSE summarize

oriented(o, line, summarize) ==
    IF Len(line) > 5 /\ o.dir /\ line[6] = "-" THEN Reverse(summarize)
    ELSE summarize

\* sitebreaks = list(range(-span, span + pf_res, pf_res))
range_len(lo, hi, step) == IF hi <= lo THEN 0 ELSE (hi - lo + step - 1) \div step

site_breaks(o) ==
    [k \in 1..range_len(0 - o.span, o.span + o.pf_res, o.pf_res) |->
        (0 - o.span) + (k - 1) * o.pf_res]

\* ------------------------------------------------------------------------
\* dump (lines 186-205).  The text of a line is a list of tokens <<kind, x>>:
\* "txt" a field printed with %s, "num" a value printed by str(), "tab",
\* "comma" and "nl" the separators.
\* ------------------------------------------------------------------------
Txt(x) == <<"txt", x>>

Tab == <<"tab", "">>

Comma == <<"comma", "">>

Newline == <<"nl", "">>

\* ','.join(map(str, prof))
RECURSIVE join_values(_, _)
join_values(prof, n) ==
    IF n = 0 THEN <<>>
    ELSE IF n = 1 THEN << <<"num", prof[1]>> >>
    ELSE join_values(prof, n - 1) \o <<Comma, <<"num", prof[n]>>>>

\* the text written for bedlist[i], or the IndexError of bedlist[i][3]
dump_line(first, line, prof) ==
    LET sv == join_values(prof, Len(prof))
    IN  IF Len(first) < 4
        THEN List(<<Txt(line[1]), Tab, Txt(line[2]), Tab, Txt(line[3]), Tab>>
                      \o sv \o <<Newline>>)
        ELSE IF Len(line) < 4 THEN Raise("IndexError")
        ELSE List(<<Txt(line[1]), Tab, Txt(line[2]), Tab, Txt(line[3]), Tab, Tab,
                    Txt(line[4]), Tab>> \o sv \o <<Newline>>)

\* the lines written for bedlist[0..n-1], and the error that ended the loop
RECURSIVE dump_loop(_, _, _)
dump_loop(bedlist, profs, n) ==
    IF n = 0 THEN [lines |-> <<>>, err |-> ""]
    ELSE LET before == dump_loop(bedlist, profs, n - 1)
             this   == dump_line(bedlist[1], bedlist[n], profs[n])
         IN  IF before.err # "" THEN before
             ELSE IF IsList(this)
                  THEN [lines |-> Append(before.lines, this.val), err |-> ""]
                  ELSE [lines |-> before.lines, err |-> this.tag]

dump(bedlist, profs) == dump_loop(bedlist, profs, Len(bedlist))

\* ------------------------------------------------------------------------
\* aggregation (lines 283-295) and CalcConfidInterval (lines 230-236)
\* ------------------------------------------------------------------------
MinLen(profs) ==
    CHOOSE n \in {Len(profs[i]) : i \in 1..Len(profs)} :
        \A i \in 1..Len(profs) : n <= Len(profs[i])

\* list(map(list, zip(*siteprofs)))
transpose(profs) ==
    IF Len(profs) = 0 THEN <<>>
    ELSE [j \in 1..MinLen(profs) |-> [i \in 1..Len(profs) |-> profs[i][j]]]

\* siteprofs_t with the NaN filtered out
filtered_t(profs) ==
    LET t == transpose(profs) IN [j \in 1..Len(t) |-> DropNaN(t[j])]

\* (t - E)**2
SqDev(t, E) ==
    LET n == t[1] * E[2] - E[1] * t[2]
        d == t[2] * E[2]
    IN  Frac(n * n, d * d)

\* CalcConfidInterval(lx).  The interval (E - z*sqrt(W), E + z*sqrt(W)), with
\* W = S2/len(lx), is returned as <<E, W>>: the square root is not computed.
CalcConfidInterval(lx) ==
    IF Len(lx) = 0 THEN Raise("ZeroDivisionError")
    ELSE LET E  == Mean(lx)
             S2 == Mean([k \in 1..Len(lx) |-> SqDev(lx[k], E)])
         IN  List(<<E, FracDivInt(S2, Len(lx))>>)

\* [CalcConfidInterval(t) for t in siteprofs_t]
confid_intervals(ft) ==
    IF \E j \in 1..Len(ft) : Len(ft[j]) = 0 THEN Raise("ZeroDivisionError")
    ELSE List([j \in 1..Len(ft) |-> CalcConfidInterval(ft[j]).val])

\* kk, the mean profile of the pair
mean_profile(ft) ==
    [j \in 1..Len(ft) |-> IF Len(ft[j]) > 0 THEN Mean(ft[j]) ELSE <<0, 1>>]

\* ------------------------------------------------------------------------
\* rendering (lines 124-184): what is handed to R, or the error raised
\* ------------------------------------------------------------------------
draw_siteprofiles(breaks, avg, ci) ==
    List(<<[x |-> breaks, y |-> avg, ci |-> ci]>>)

\* ylim = [min([min(t) ...]), max([max(t) ...])] raises on an empty profile
draw_multiple_siteprofiles(breaks, avgs, cis) ==
    IF \E i \in 1..Len(avgs) : Len(avgs[i]) = 0 THEN Raise("ValueError")
    ELSE List([i \in 1..Len(avgs) |-> [x |-> breaks, y |-> avgs[i], ci |-> cis[i]]])

\* ------------------------------------------------------------------------
\* main (lines 241-312) as a state machine
\* ------------------------------------------------------------------------
VARIABLES opts, pc, err, iw, ib, bw, bedlist, li, valid_bedlist, siteprofs,
          summarized, calls, skipped, dumps, super_avg_siteprofs,
          super_confid_interval, sitebreaks, rscript

\* opts                   the validated options
\* pc                     where main is: "validate", "open", "bed", "site",
\*                        "dump", "agg", "render", "done", or "failed" after
\*                        an exception or sys.exit(1)
\* err                    the exception that ended the run, "" if none
\* iw, ib                 the loop indices (from 0, as in the code)
\* bw                     the open track
\* bedlist, li            the sites of the pair and how many were visited
\* valid_bedlist          the retained sites
\* siteprofs              their profiles
\* summarized             what summarize_bigwig returned for each of them
\* calls                  the arguments of the calls of summarize_bigwig made
\*                        for the pair
\* skipped                the sites of the pair dropped by the window test
\* dumps                  the dump files written: label and lines
\* super_avg_siteprofs, super_confid_interval, sitebreaks   as in the code
\* rscript                what was handed to R
mainVars == <<opts, pc, err, iw, ib, bw, bedlist, li, valid_bedlist, siteprofs,
              summarized, calls, skipped, dumps, super_avg_siteprofs,
              super_confid_interval, sitebreaks, rscript>>

vars == <<sumVars, mainVars>>

IdleOptions ==
    [wig |-> <<TrackE>>, bed |-> <<<<>>>>, span |-> 1, pf_res |-> 1,
     dir |-> FALSE, confidence |-> FALSE, dump |-> FALSE, label |-> Labels(1),
     nofile |-> {}, unreadable |-> {}]

MainStart(o, p) ==
    /\ opts = o
    /\ pc = p
    /\ err = ""
    /\ iw = 0
    /\ ib = 0
    /\ bw = TrackE
    /\ bedlist = <<>>
    /\ li = 0
    /\ valid_bedlist = <<>>
    /\ siteprofs = <<>>
    /\ summarized = <<>>
    /\ calls = <<>>
    /\ skipped = <<>>
    /\ dumps = <<>>
    /\ super_avg_siteprofs = <<>>
    /\ super_confid_interval = <<>>
    /\ sitebreaks = <<>>
    /\ rscript = None

\* the state when main is entered, the command line parsed
MainInit == \E o \in Runs : MainStart(o, "validate")

MainIdle == MainStart(IdleOptions, "idle")

\* opts = opt_validate(parser), then sitebreaks and the two empty lists
\* (lines 243-249)
Validate ==
    /\ pc = "validate"
    /\ IF opt_validate(opts) = ""
       THEN pc' = "open" /\ sitebreaks' = site_breaks(opts) /\ UNCHANGED err
       ELSE pc' = "failed" /\ err' = opt_validate(opts) /\ UNCHANGED sitebreaks
    /\ UNCHANGED <<opts, iw, ib, bw, bedlist, li, valid_bedlist, siteprofs,
                   summarized, calls, skipped, dumps, super_avg_siteprofs,
                   super_confid_interval, rscript>>
    /\ UNCHANGED sumVars

\* bw = open_bigwig(opts.wig[iw]) (line 253)
OpenTrack ==
    /\ pc = "open"
    /\ LET f == open_bigwig(opts, iw + 1)
       IN  IF IsList(f)
           THEN bw' = f.val /\ ib' = 0 /\ pc' = "bed" /\ UNCHANGED err
           ELSE err' = f.tag /\ pc' = "failed" /\ UNCHANGED <<bw, ib>>
    /\ UNCHANGED <<opts, iw, bedlist, li, valid_bedlist, siteprofs,
                   summarized, calls, skipped, dumps, super_avg_siteprofs,
                   super_confid_interval, sitebreaks, rscript>>
    /\ UNCHANGED sumVars

\* bedlist = BedInput(opts.bed[ib]); valid_bedlist = []; siteprofs = []
ReadBed ==
    /\ pc = "bed"
    /\ bedlist' = opts.bed[ib + 1]
    /\ li' = 0
    /\ valid_bedlist' = <<>>
    /\ siteprofs' = <<>>
    /\ summarized' = <<>>
    /\ calls' = <<>>
    /\ skipped' = <<>>
    /\ pc' = "site"
    /\ UNCHANGED <<opts, err, iw, ib, bw, dumps, super_avg_siteprofs,
                   super_confid_interval, sitebreaks, rscript>>
    /\ UNCHANGED sumVars

\* one pass of `for line in bedlist` (lines 260-279)
SiteStep ==
    /\ pc = "site"
    /\ li < Len(bedlist)
    /\ li' = li + 1
    /\ LET line == bedlist[li + 1] IN
       IF window_invalid(opts, line)
       THEN /\ skipped' = Append(skipped, line)
            /\ UNCHANGED <<calls, valid_bedlist, siteprofs, summarized>>
       ELSE \E w \in {window(opts, line)} :
            \E ret \in {summarize_bigwig(bw, w.chrom, w.start, w.end, w.bins)} :
                /\ calls' = Append(calls, [line |-> line, start |-> w.start,
                                           end |-> w.end, bins |-> w.bins])
                /\ UNCHANGED skipped
                /\ IF ~IsList(ret) \/ Len(ret.val) = 0
                   THEN UNCHANGED <<valid_bedlist, siteprofs, summarized>>
                   ELSE /\ valid_bedlist' = Append(valid_bedlist, line)
                        /\ summarized' = Append(summarized, ret.val)
                        /\ siteprofs' = Append(siteprofs,
                                               oriented(opts, line, ret.val))
    /\ UNCHANGED <<opts, pc, err, iw, ib, bw, bedlist, dumps,
                   super_avg_siteprofs, super_confid_interval, sitebreaks,
                   rscript>>
    /\ UNCHANGED sumVars

\* the loop over the sites ends; `if opts.dump` (line 280)
EndSites ==
    /\ pc = "site"
    /\ li = Len(bedlist)
    /\ pc' = IF opts.dump THEN "dump" ELSE "agg"
    /\ UNCHANGED <<opts, err, iw, ib, bw, bedlist, li, valid_bedlist, siteprofs,
                   summarized, calls, skipped, dumps, super_avg_siteprofs,
                   super_confid_interval, sitebreaks, rscript>>
    /\ UNCHANGED sumVars

\* dump(opts.label[iw + ib] + '_dump.txt', valid_bedlist, siteprofs).  When
\* the loop raises, dfhd.close() is not reached: the lines written so far
\* reach the file if the buffer is flushed when the file object is
\* finalised, and are lost otherwise.
DumpPair ==
    /\ pc = "dump"
    /\ LET d == dump(valid_bedlist, siteprofs)
       IN  /\ \E kept \in (IF d.err = "" THEN {d.lines} ELSE {d.lines, <<>>}) :
                  dumps' = Append(dumps, [label |-> opts.label[iw + ib + 1],
                                          lines |-> kept])
           /\ err' = d.err
           /\ pc' = IF d.err = "" THEN "agg" ELSE "failed"
    /\ UNCHANGED <<opts, iw, ib, bw, bedlist, li, valid_bedlist, siteprofs,
                   summarized, calls, skipped, super_avg_siteprofs,
                   super_confid_interval, sitebreaks, rscript>>
    /\ UNCHANGED sumVars

\* lines 283-295, then on to the next list, the next track or the R script
Aggregate ==
    /\ pc = "agg"
    /\ LET ft == filtered_t(siteprofs)
           ci == IF opts.confidence THEN confid_intervals(ft) ELSE None
       IN  IF opts.confidence /\ ~IsList(ci)
           THEN /\ err' = ci.tag
                /\ pc' = "failed"
                /\ UNCHANGED <<iw, ib, super_avg_siteprofs, super_confid_interval>>
           ELSE /\ super_confid_interval' = Append(super_confid_interval, ci)
                /\ super_avg_siteprofs' =
                       Append(super_avg_siteprofs, mean_profile(ft))
                /\ UNCHANGED err
                /\ IF ib + 1 < Len(opts.bed)
                   THEN ib' = ib + 1 /\ pc' = "bed" /\ UNCHANGED iw
                   ELSE IF iw + 1 < Len(opts.wig)
                        THEN iw' = iw + 1 /\ pc' = "open" /\ UNCHANGED ib
                        ELSE pc' = "render" /\ UNCHANGED <<iw, ib>>
    /\ UNCHANGED <<opts, bw, bedlist, li, valid_bedlist, siteprofs, summarized,
                   calls, skipped, dumps, sitebreaks, rscript>>
    /\ UNCHANGED sumVars

\* lines 297-312: the R script is built and written
Render ==
    /\ pc = "render"
    /\ LET r == IF Len(opts.wig) = 1 /\ Len(opts.bed) = 1
                THEN draw_siteprofiles(sitebreaks, super_avg_siteprofs[1],
                                       super_confid_interval[1])
                ELSE draw_multiple_siteprofiles(sitebreaks, super_avg_siteprofs,
                                                super_confid_interval)
       IN  IF IsList(r)
           THEN rscript' = r /\ pc' = "done" /\ UNCHANGED err
           ELSE err' = r.tag /\ pc' = "failed" /\ UNCHANGED rscript
    /\ UNCHANGED <<opts, iw, ib, bw, bedlist, li, valid_bedlist, siteprofs,
                   summarized, calls, skipped, dumps, super_avg_siteprofs,
                   super_confid_interval, sitebreaks>>
    /\ UNCHANGED sumVars



MainNext ==
    \/ Validate
    \/ OpenTrack
    \/ ReadBed
    \/ SiteStep
    \/ EndSites
    \/ DumpPair
    \/ Aggregate
    \/ Render

\* ------------------------------------------------------------------------
\* summarize_bigwig alone, on the inputs of SumInputs
\* ------------------------------------------------------------------------
SumPending == [ret |-> None, queries |-> <<>>]

SumIdleArgs == [bw |-> TrackE, chrom |-> "chr1", start |-> 0, len |-> 1, bins |-> 1]

SumIdle == sumArgs = SumIdleArgs /\ sumPc = "idle" /\ sumRes = SumPending

SumInit == sumArgs \in SumInputs /\ sumPc = "call" /\ sumRes = SumPending

\* summarize_bigwig(bw, chrom, start, end, bins) is called and returns
SumCall ==
    /\ sumPc = "call"
    /\ sumRes' = summarize_run(sumArgs.bw, sumArgs.chrom, sumArgs.start,
                               sumArgs.start + sumArgs.len, sumArgs.bins)
    /\ sumPc' = "done"
    /\ UNCHANGED sumArgs
    /\ UNCHANGED mainVars

SumNext == SumCall

Init == MainInit /\ SumIdle

Next == MainNext

Spec == Init /\ [][Next]_vars

\* summarize_bigwig alone
SumSpecInit == SumInit /\ MainIdle

SpecSum == SumSpecInit /\ [][SumNext]_vars

\* ------------------------------------------------------------------------
\* properties of summarize_bigwig
\* ------------------------------------------------------------------------
SumDone == sumPc = "done" /\ sumArgs.bins >= 1

\* non-missing raw values of the track in [lo, hi), as a set of positions
Covered(track, chrom, lo, hi) ==
    IF chrom \notin track.chroms THEN {}
    ELSE {p \in lo..(hi - 1) : ValueAt(track, p) # NaN}

\* C1: a call with end > start and bins >= 1 returns None or a list of
\* exactly bins values
C1_LengthIsBins ==
    SumDone => \/ sumRes.ret = None
               \/ IsList(sumRes.ret) /\ Len(sumRes.ret.val) = sumArgs.bins

C1_Witness ==
    /\ SumDone /\ sumArgs.bins = 3
    /\ IsList(sumRes.ret) /\ Len(sumRes.ret.val) = 3
    /\ sumRes.ret.val[3] = NaN

\* C2: None is returned exactly when no bin has a non-missing raw value, and
\* a returned list has NaN exactly in the bins without one
C2_NoneIffNoCoverage ==
    SumDone =>
        LET cov(k) == Covered(sumArgs.bw, sumArgs.chrom,
                              sumRes.queries[k][1], sumRes.queries[k][2])
        IN  /\ (sumRes.ret = None) <=> (\A k \in 1..sumArgs.bins : cov(k) = {})
            /\ IsList(sumRes.ret) =>
                   \A k \in 1..sumArgs.bins :
                       (sumRes.ret.val[k] = NaN) <=> (cov(k) = {})

C2_Witness ==
    /\ SumDone /\ sumArgs.bins = 2 /\ IsList(sumRes.ret)
    /\ sumRes.ret.val[1] = NaN /\ sumRes.ret.val[2] # NaN

\* the mean of the non-missing raw values of [lo, hi), segment by segment
\* (the segments of the tracks used here do not overlap)
RECURSIVE OverlapCount(_, _, _, _)
OverlapCount(segs, lo, hi, n) ==
    IF n = 0 THEN 0
    ELSE LET a == IF segs[n][1] > lo THEN segs[n][1] ELSE lo
             b == IF segs[n][2] < hi THEN segs[n][2] ELSE hi
         IN  OverlapCount(segs, lo, hi, n - 1) + (IF b > a THEN b - a ELSE 0)

RECURSIVE OverlapTotal(_, _, _, _)
OverlapTotal(segs, lo, hi, n) ==
    IF n = 0 THEN 0
    ELSE LET a == IF segs[n][1] > lo THEN segs[n][1] ELSE lo
             b == IF segs[n][2] < hi THEN segs[n][2] ELSE hi
         IN  OverlapTotal(segs, lo, hi, n - 1)
                 + (IF b > a THEN (b - a) * segs[n][3] ELSE 0)

ExpectedMean(track, chrom, lo, hi) ==
    LET n == OverlapCount(track.segs, lo, hi, Len(track.segs))
    IN  IF chrom \notin track.chroms \/ n = 0 THEN NaN
        ELSE Frac(OverlapTotal(track.segs, lo, hi, Len(track.segs)), n)

\* trunc(start + i * w) for the exact w = (end - start) / bins
ExactBoundary(start, len, bins, i) == start + (i * len) \div bins

\* C3: bin i is the mean of the non-missing values of
\* [trunc(start + i*w), trunc(start + (i+1)*w)), w = (end - start)/bins; the
\* sub-intervals share their boundaries, begin at start and end at end; the
\* track of the tests summarised over [0, 300) in 3 bins gives [1, 2, 3]
C3_BinsPartitionAndMean ==
    SumDone =>
        LET a == sumArgs
            q == sumRes.queries
        IN  /\ q[1][1] = a.start
            /\ q[a.bins][2] = a.start + a.len
            /\ \A k \in 1..(a.bins - 1) : q[k][2] = q[k + 1][1]
            /\ \A k \in 1..a.bins :
                   q[k] = <<ExactBoundary(a.start, a.len, a.bins, k - 1),
                            ExactBoundary(a.start, a.len, a.bins, k)>>
            /\ IsList(sumRes.ret) =>
                   \A k \in 1..a.bins :
                       sumRes.ret.val[k] =
                           ExpectedMean(a.bw, a.chrom,
                                        ExactBoundary(a.start, a.len, a.bins, k - 1),
                                        ExactBoundary(a.start, a.len, a.bins, k))
            /\ (a.bw = StubBW /\ a.len = 300 /\ a.bins = 3)
                   => sumRes.ret = List(<< <<1, 1>>, <<2, 1>>, <<3, 1>> >>)

\* C11: a call with bins < 1 (zero or negative) fails with an
\* invalid-argument error (ValueError); it returns neither None nor a list
C11_BinsBelowOneRaises ==
    (sumPc = "done" /\ sumArgs.bins < 1) =>
        /\ sumRes.ret # None
        /\ ~IsList(sumRes.ret)
        /\ sumRes.ret = Raise("ValueError")

\* ------------------------------------------------------------------------
\* properties of main
\* ------------------------------------------------------------------------
Last(q) == q[Len(q)]

\* the fields of a line of text, cut at the tabs, the newline left out
RECURSIVE SplitTabs(_, _)
SplitTabs(text, n) ==
    IF n = 0 THEN << <<>> >>
    ELSE LET before == SplitTabs(text, n - 1)
             tok    == text[n]
         IN  IF tok[1] = "tab" THEN Append(before, <<>>)
             ELSE IF tok[1] = "nl" THEN before
             ELSE [before EXCEPT ![Len(before)] = Append(@, tok)]

Fields(text) == SplitTabs(text, Len(text))

IsTxt(field, x) == Len(field) = 1 /\ field[1][1] = "txt" /\ field[1][2] = x

\* the values of a comma-joined field, NotValues if it is not one
NotValues == << <<0 - 1, 0 - 1>> >>

ValuesOf(field) ==
    IF /\ Len(field) % 2 = 1
       /\ \A k \in 1..Len(field) :
              field[k][1] = (IF k % 2 = 1 THEN "num" ELSE "comma")
    THEN [k \in 1..((Len(field) + 1) \div 2) |-> field[2 * k - 1][2]]
    ELSE NotValues

\* the pair in valid_bedlist and siteprofs has been aggregated, and its mean
\* profile is the last of super_avg_siteprofs
PairAggregated ==
    /\ pc \in {"open", "bed", "render", "done", "failed"}
    /\ err \in {"", "ValueError"}
    /\ Len(super_avg_siteprofs) > 0

\* the pair in valid_bedlist and siteprofs has gone through dump, and its
\* file is the last of dumps
PairDumped ==
    /\ opts.dump
    /\ pc \in {"agg", "open", "bed", "render", "done", "failed"}
    /\ Len(dumps) > 0

\* the window that integer arithmetic gives
IntCenter(line) == (line[2] + line[3]) \div 2

IntStart(o, line) == IntCenter(line) - o.span - o.pf_res \div 2

IntEnd(o, line) == IntCenter(line) + o.span - o.pf_res \div 2 + o.pf_res

IntBins(o) == (2 * o.span) \div o.pf_res + 1

\* C4: the window handed to summarize_bigwig is center = floor((start+end)/2),
\* start = center - span - floor(res/2), end = center + span - floor(res/2)
\* + res, bins = floor(2*span/res) + 1, whatever the parities
C4_WindowIsIntegerArithmetic ==
    \A k \in 1..Len(calls) :
        /\ calls[k].start = IntStart(opts, calls[k].line)
        /\ calls[k].end = IntEnd(opts, calls[k].line)
        /\ calls[k].bins = IntBins(opts)

\* C5: a site whose window has start <= 0 or end <= 0 is skipped without an
\* error: summarize_bigwig is never called with a start or end <= 0, and the
\* site is neither retained nor dumped
C5_InvalidWindowSkipped ==
    /\ \A k \in 1..Len(calls) : calls[k].start > 0 /\ calls[k].end > 0
    /\ \A k \in 1..li :
           (IntStart(opts, bedlist[k]) <= 0 \/ IntEnd(opts, bedlist[k]) <= 0)
               => /\ \A i \in 1..Len(valid_bedlist) : valid_bedlist[i] # bedlist[k]
                  /\ \A i \in 1..Len(calls) : calls[i].line # bedlist[k]

\* C6: the profile of a retained site is the reverse of what summarize_bigwig
\* returned if direction is on and the site has strand '-', and is what it
\* returned otherwise; so in a dump a '-' site and a '+' site of the same
\* coordinates carry values that are the reverse of each other
SameCoords(x, y) == x[1] = y[1] /\ x[2] = y[2] /\ x[3] = y[3]

Strand(line) == IF Len(line) > 5 THEN line[6] ELSE ""

C6_ReversedIffMinusAndDir ==
    /\ Len(siteprofs) = Len(summarized)
    /\ \A k \in 1..Len(siteprofs) :
           siteprofs[k] = IF opts.dir /\ Strand(valid_bedlist[k]) = "-"
                          THEN Reverse(summarized[k]) ELSE summarized[k]
    /\ PairDumped =>
           LET lines == Last(dumps).lines
           IN  \A i, j \in 1..Len(lines) :
                   ( /\ SameCoords(valid_bedlist[i], valid_bedlist[j])
                     /\ Strand(valid_bedlist[i]) = "+"
                     /\ Strand(valid_bedlist[j]) = "-" )
                   => ValuesOf(Last(Fields(lines[j]))) =
                          (IF opts.dir
                           THEN Reverse(ValuesOf(Last(Fields(lines[i]))))
                           ELSE ValuesOf(Last(Fields(lines[i]))))

C6_Witness ==
    /\ PairDumped /\ opts.dir /\ pc = "done"
    /\ Len(Last(dumps).lines) = 2
    /\ Strand(valid_bedlist[1]) = "+" /\ Strand(valid_bedlist[2]) = "-"
    /\ ValuesOf(Last(Fields(Last(dumps).lines[1]))) = << <<1, 1>>, <<2, 1>>, <<2, 1>> >>
    /\ ValuesOf(Last(Fields(Last(dumps).lines[2]))) = << <<2, 1>>, <<2, 1>>, <<1, 1>> >>

\* C7: a bin where every contributing value is missing gets the mean 0.0,
\* and no exception is raised, with or without --confidence
C7_AllMissingBinIsZero ==
    /\ err # "ZeroDivisionError"
    /\ PairAggregated =>
           LET ft == filtered_t(siteprofs)
           IN  /\ Len(Last(super_avg_siteprofs)) = Len(ft)
               /\ \A j \in 1..Len(ft) :
                      Len(ft[j]) = 0 => Last(super_avg_siteprofs)[j] = <<0, 1>>

\* C8: a pair without a valid site completes with the mean profile 0.0 in
\* each of its floor(2*span/res) + 1 bins, and the run goes on to the next
\* pair and through rendering
C8_EmptyPairGivesZeroProfile ==
    /\ (PairAggregated /\ Len(valid_bedlist) = 0)
           => Last(super_avg_siteprofs) = [j \in 1..IntBins(opts) |-> <<0, 1>>]
    /\ err # "ValueError"

\* C9: the dump of a pair has one line per retained site, in the order they
\* were retained, line i with the coordinates of the i-th retained site and
\* its values; the retained sites and profiles stay aligned
C9_DumpLinePerRetainedSite ==
    /\ Len(valid_bedlist) = Len(siteprofs)
    /\ PairDumped =>
           LET lines == Last(dumps).lines
           IN  /\ Len(lines) = Len(valid_bedlist)
               /\ \A i \in 1..Len(lines) :
                      LET f == Fields(lines[i])
                      IN  /\ Len(f) >= 4
                          /\ IsTxt(f[1], valid_bedlist[i][1])
                          /\ IsTxt(f[2], valid_bedlist[i][2])
                          /\ IsTxt(f[3], valid_bedlist[i][3])
                          /\ ValuesOf(Last(f)) = siteprofs[i]

\* C10: the line of a retained site of at least 4 fields has exactly the 5
\* fields chrom, start, end, name, values; that of a site of fewer has
\* exactly the 4 fields chrom, start, end, values; no field is empty
C10_DumpLineFields ==
    PairDumped =>
        \A i \in 1..Len(valid_bedlist) :
            /\ i <= Len(Last(dumps).lines)
            /\ LET f    == Fields(Last(dumps).lines[i])
                   site == valid_bedlist[i]
               IN  /\ Len(f) = (IF Len(site) >= 4 THEN 5 ELSE 4)
                   /\ \A k \in 1..Len(f) : Len(f[k]) > 0
                   /\ IsTxt(f[1], site[1])
                   /\ IsTxt(f[2], site[2])
                   /\ IsTxt(f[3], site[3])
                   /\ Len(site) >= 4 => IsTxt(f[4], site[4])
                   /\ ValuesOf(Last(f)) = siteprofs[i]

\* the run was ended by a fatal condition: the sys.exit(1) of opt_validate
\* or a track that could not be opened
FatalRaised == pc = "failed" /\ err \in {"SystemExit", "IOError"}

\* C12: a fatal condition (unreadable track, several tracks with several
\* site groups, label count mismatch) ends the run before any profile is
\* produced: when it is raised no mean profile has been computed and no dump
\* file written, also when the unreadable track is not the first one
C12_FatalBeforeAnyProfile ==
    FatalRaised => Len(super_avg_siteprofs) = 0 /\ Len(dumps) = 0

\* the options passed opt_validate and sitebreaks has been built (line 246)
OffsetsBuilt == pc # "validate" /\ err # "SystemExit"

\* C13: for every positive span and resolution, the bin offsets handed to
\* the renderer are -span, -span + res, ..., +span, and there are
\* floor(2*span/res) + 1 of them, as many as the bins asked of
\* summarize_bigwig; so a mean profile built from at least one retained site
\* has one value per bin offset
C13_OffsetsMatchBins ==
    OffsetsBuilt =>
        /\ Len(sitebreaks) = IntBins(opts)
        /\ sitebreaks[1] = 0 - opts.span
        /\ Last(sitebreaks) = opts.span
        /\ \A k \in 1..Len(sitebreaks) :
               sitebreaks[k] = (0 - opts.span) + (k - 1) * opts.pf_res
        /\ \A k \in 1..Len(calls) : calls[k].bins = Len(sitebreaks)
        /\ (PairAggregated /\ Len(valid_bedlist) > 0)
               => Len(Last(super_avg_siteprofs)) = Len(sitebreaks)

====
